---- MODULE Spec2Model ----
(***************************************************************************)
(* Batch job engine of the land-valuation backend.                         *)
(*                                                                         *)
(* The Job Store is the batch_jobs table.  Every database round trip of a  *)
(* coroutine (a SELECT, or the UPDATE/INSERT flushed by a commit) is one   *)
(* atomic step; the synchronous Python code between two awaits belongs to  *)
(* the step of the round trip that precedes it.  The coroutines are the    *)
(* recovery sweep, the scheduler loop, one processing task per admitted    *)
(* job with its row pool and progress reporter, and the request handlers   *)
(* for submit and cancel.                                                  *)
(*                                                                         *)
(* Row tasks of one job run the same code and differ only in their         *)
(* position, so the row pool is kept as the number of row tasks at each    *)
(* position plus the set of progress calls in flight.                      *)
(***************************************************************************)
EXTENDS Integers, Sequences, FiniteSets, TLC

VARIABLES
    db,        \* batch_jobs table: job id -> BatchJob row (status "absent" = no row)
    file,      \* uploaded file saved under file_path: job id -> [rows, ok]
    exports,   \* /tmp/exports/results_<job>.csv: job id -> rows written, or NoExport
    nextJob,   \* number of jobs created so far
    cancel,    \* cancel_job handler per job: "idle" | "commit"
    sched,     \* run_job_scheduler: [pc, slots, jobs_to_run]
    sweep,     \* recover_stuck_jobs: [pc, stuck_jobs]
    proc,      \* process_job_background per job, with its row pool
    restarts,  \* number of process restarts so far
    cancels,   \* number of cancel requests received so far
    boot,      \* job id -> stored status when the current process run started
    fan,       \* get_analysis calls of row tasks: <<job, row>> -> [pc, dry_run, pending, ...]
    pool,      \* row pool of one job with every row task kept apart (SpecRows)
    download,  \* last response of download_batch_result: [job, kind, status]
    cache,     \* analysis_results rows of one parcel and the get_analysis callers
    faults,    \* number of database errors raised so far
    frame,     \* the columns of the DataFrame that analyze_file parsed
    wd         \* WebDriverPool: the drivers queue and the drivers held by callers

vars ==
    <<db, file, exports, nextJob, cancel, sched, sweep, proc, restarts, cancels, boot,
      fan, pool, download, cache, faults, frame, wd>>

\* the variables of the job engine
engineVars ==
    <<db, file, exports, nextJob, cancel, sched, sweep, proc, restarts, cancels, boot>>

\* the variables of the row-level views of a job
rowVars == <<fan, pool>>

\* the download route, the analysis cache and the injected database errors
sideVars == <<download, cache, faults, frame, wd>>

\* the column renaming of analyze_file and the WebDriverPool
auxVars == <<frame, wd>>

----------------------------------------------------------------------------
(* Bounds of the model *)

LifeJobs == 2          \* jobs submitted in Spec
LifeCancels == 2       \* cancel requests in Spec
MaxRestarts == 1       \* process restarts in Spec
AdmissionJobs == 4     \* jobs submitted in SpecAdmission and SpecPriority
AdmissionCancels == 1  \* cancel requests in SpecAdmission
ProgressJobs == 1      \* jobs submitted in SpecProgress
ProgressCancels == 1   \* cancel requests in SpecProgress
FewRows == 1           \* rows of a file in Spec, SpecAdmission and SpecPriority
ManyRows == 11         \* rows of a file in SpecProgress
PoolRows == 21         \* rows of a file in SpecPool
FanJobs == 2           \* jobs with rows under analysis in SpecFanout
FanRows == 1           \* rows under analysis per job in SpecFanout
TrackRows == 3         \* rows of a file in SpecRows
PoolSize == 2          \* pool_size of the WebDriverPool in SpecDrivers
DriverCallers == 2     \* callers of WebDriverPool.acquire in SpecDrivers
MaxColumns == 3        \* columns of a file in SpecColumns
MaxMapped == 1         \* entries of column_mapping in SpecColumns
MaxFaults == 2         \* database errors raised in SpecResilient and SpecSwallow
CacheCallers == 2      \* row tasks of different jobs analysing one parcel in SpecCache
CacheCalls == 2        \* get_analysis calls of each of them in SpecCache

MaxOf(a, b) == IF a >= b THEN a ELSE b
MaxJobs == MaxOf(LifeJobs, MaxOf(AdmissionJobs, ProgressJobs))
JobIds == 1..MaxJobs

(* Program constants *)

MAX_CONCURRENT_JOBS == 3
concurrency_limit == 10
PROGRESS_EVERY == 10
ANALYSIS_SEMAPHORE == 20
max_uses == 50
METRIC_CALLS == 14
IMAGE_CALLS == 6

JobStatus == {"queued", "processing", "completed", "failed", "cancelled"}
Terminal == {"completed", "failed", "cancelled"}
JobPriority == {"low", "normal", "high"}

ERR_NONE == "none"
ERR_CANCELLED == "Cancelled by user"
ERR_INTERRUPTED == "System Restarted: Job interrupted unexpectedly."
ERR_FAILED == "Error"

----------------------------------------------------------------------------
(* The BatchJob row *)

BatchJob(st, prio, created) ==
    [status |-> st, priority |-> prio, created_at |-> created,
     started_at |-> FALSE, completed_at |-> FALSE,
     total_rows |-> 0, completed_rows |-> 0, failed_rows |-> 0,
     error_message |-> ERR_NONE, result_url |-> FALSE]

NoJob == BatchJob("absent", "normal", 0)

NoFile == [rows |-> 0, ok |-> FALSE]

\* no result file has been written for the job
NoExport == -1

IdleProc ==
    [pc |-> "none", total_rows |-> 0, waiting |-> 0, running |-> 0,
     completed_count |-> 0, skipped |-> 0, cancelled |-> FALSE, prog |-> {}]

DoneProc == [IdleProc EXCEPT !.pc = "done"]

IdleSched == [pc |-> "sleep", slots |-> 0, jobs_to_run |-> <<>>]

Stored == {j \in JobIds : db[j].status # "absent"}

WithStatus(st) == {j \in JobIds : db[j].status = st}

----------------------------------------------------------------------------
(* create_job_with_file: the upload is saved, the record is built with     *)
(* status QUEUED and created_at = now, and the INSERT is committed.  The   *)
(* job becomes visible at the commit; created_at is the order of commits.  *)

SubmitJob(cap, prio, rows, ok) ==
    /\ nextJob < cap
    /\ LET j == nextJob + 1 IN
        /\ nextJob' = j
        /\ file' = [file EXCEPT ![j] = [rows |-> rows, ok |-> ok]]
        /\ db' = [db EXCEPT ![j] = BatchJob("queued", prio, j)]
    /\ UNCHANGED <<exports, cancel, sched, sweep, proc, restarts, cancels, boot, rowVars, sideVars>>

----------------------------------------------------------------------------
(* cancel_job *)

\* the status test left out
CancelWritesAlways(st) == TRUE

CancelWrites(st) == st \in {"queued", "processing"}

\* db.get and the status test; a job that is neither QUEUED nor PROCESSING
\* is answered without a write
CancelGet(j, maxCancels) ==
    /\ cancel[j] = "idle"
    /\ cancels < maxCancels
    /\ cancels' = cancels + 1
    /\ cancel' = [cancel EXCEPT ![j] =
                    IF CancelWrites(db[j].status) THEN "commit" ELSE "idle"]
    /\ UNCHANGED <<db, file, exports, nextJob, sched, sweep, proc, restarts, boot, rowVars, sideVars>>

CancelledJob(job) ==
    [job EXCEPT !.status = "cancelled",
                !.error_message = ERR_CANCELLED,
                !.completed_at = TRUE]

CancelCommit(j) ==
    /\ cancel[j] = "commit"
    /\ db' = [db EXCEPT ![j] = CancelledJob(@)]
    /\ cancel' = [cancel EXCEPT ![j] = "idle"]
    /\ UNCHANGED <<file, exports, nextJob, sched, sweep, proc, restarts, cancels, boot, rowVars, sideVars>>

----------------------------------------------------------------------------
(* recover_stuck_jobs *)

\* every unfinished job selected instead of the PROCESSING ones
StuckJobsUnfinished == WithStatus("processing") \cup WithStatus("queued")

StuckJobs == WithStatus("processing")

SweepSelect ==
    /\ sweep.pc = "select"
    /\ sweep' = [pc |-> "commit", stuck_jobs |-> StuckJobs]
    /\ UNCHANGED <<db, file, exports, nextJob, cancel, sched, proc, restarts, cancels, boot, rowVars, sideVars>>

InterruptedJob(job) ==
    [job EXCEPT !.status = "failed",
                !.error_message = ERR_INTERRUPTED,
                !.completed_at = TRUE]

SweepCommit ==
    /\ sweep.pc = "commit"
    /\ db' = [j \in JobIds |->
                IF j \in sweep.stuck_jobs THEN InterruptedJob(db[j]) ELSE db[j]]
    /\ sweep' = [pc |-> "done", stuck_jobs |-> {}]
    /\ UNCHANGED <<file, exports, nextJob, cancel, sched, proc, restarts, cancels, boot, rowVars, sideVars>>

----------------------------------------------------------------------------
(* run_job_scheduler *)

\* created_at descending instead of ascending
RECURSIVE OrderByCreatedAtDesc(_)
OrderByCreatedAtDesc(S) ==
    IF S = {} THEN <<>>
    ELSE LET j == CHOOSE x \in S :
                    \A y \in S : db[x].created_at >= db[y].created_at
         IN <<j>> \o OrderByCreatedAtDesc(S \ {j})

RECURSIVE OrderByCreatedAt(_)
OrderByCreatedAt(S) ==
    IF S = {} THEN <<>>
    ELSE LET j == CHOOSE x \in S :
                    \A y \in S : db[x].created_at <= db[y].created_at
         IN <<j>> \o OrderByCreatedAt(S \ {j})

Limit(s, n) == SubSeq(s, 1, IF Len(s) < n THEN Len(s) ELSE n)

\* the LIMIT left out of the query
SelectQueuedUnlimited(slots) == OrderByCreatedAt(WithStatus("queued"))

\* PROCESSING jobs selected next to the QUEUED ones
SelectUnfinished(slots) ==
    Limit(OrderByCreatedAt(WithStatus("queued") \cup WithStatus("processing")), slots)

SelectQueued(slots) == Limit(OrderByCreatedAt(WithStatus("queued")), slots)

\* QUEUED jobs counted as active next to the PROCESSING ones
ActiveJobsUnfinished == WithStatus("processing") \cup WithStatus("queued")

\* the jobs counted by the scheduler: status == PROCESSING
ActiveJobs == WithStatus("processing")

SchedCount ==
    /\ sched.pc = "sleep"
    /\ LET active_count == Cardinality(ActiveJobs) IN
        sched' = IF active_count < MAX_CONCURRENT_JOBS
                 THEN [pc |-> "select",
                       slots |-> MAX_CONCURRENT_JOBS - active_count,
                       jobs_to_run |-> <<>>]
                 ELSE IdleSched
    /\ UNCHANGED <<db, file, exports, nextJob, cancel, sweep, proc, restarts, cancels, boot, rowVars, sideVars>>

SchedSelect ==
    /\ sched.pc = "select"
    /\ LET jobs_to_run == SelectQueued(sched.slots) IN
        sched' = IF jobs_to_run = <<>> THEN IdleSched
                 ELSE [pc |-> "promote", slots |-> 0,
                       jobs_to_run |-> jobs_to_run]
    /\ UNCHANGED <<db, file, exports, nextJob, cancel, sweep, proc, restarts, cancels, boot, rowVars, sideVars>>

\* the promotion without its timestamp
StartedJobNoStamp(job) == [job EXCEPT !.status = "processing"]

StartedJob(job) ==
    [job EXCEPT !.status = "processing", !.started_at = TRUE]

SchedPromote ==
    /\ sched.pc = "promote"
    /\ LET j == Head(sched.jobs_to_run)
           rest == Tail(sched.jobs_to_run) IN
        /\ db' = [db EXCEPT ![j] = StartedJob(@)]
        /\ proc' = [proc EXCEPT ![j] = [IdleProc EXCEPT !.pc = "get"]]
        /\ sched' = IF rest = <<>> THEN IdleSched
                    ELSE [sched EXCEPT !.jobs_to_run = rest]
    /\ UNCHANGED <<file, exports, nextJob, cancel, sweep, restarts, cancels, boot, rowVars, sideVars>>

\* the exception ends the scheduler task
SchedulerDies == [IdleSched EXCEPT !.pc = "dead"]

\* 'except Exception' around the tick: the error is logged and the loop
\* sleeps and starts its next tick
AfterTickError == IdleSched

\* the database operation the scheduler is about to run (the count, the
\* select or the commit of a promotion) raises: its session is left and
\* rolled back, nothing is written and no task is created
SchedRaises ==
    /\ sched.pc \in {"sleep", "select", "promote"}
    /\ faults < MaxFaults
    /\ faults' = faults + 1
    /\ sched' = AfterTickError
    /\ UNCHANGED <<db, file, exports, nextJob, cancel, sweep, proc, restarts,
                   cancels, boot, rowVars, download, cache, auxVars>>

----------------------------------------------------------------------------
(* process_job_background, analyze_file and the row pool *)

Min(a, b) == IF a <= b THEN a ELSE b

\* the checkpoint after the semaphore left out
ReleaseSlotNoCheckpoint(pr) ==
    IF pr.waiting = 0 THEN pr
    ELSE [pr EXCEPT !.waiting = @ - 1, !.running = @ + 1]

\* a row task left the row semaphore: the next waiting row task acquires it
\* and runs its second cancellation checkpoint; with the flag set it returns
\* None and hands the semaphore on, so every waiting row task is skipped
ReleaseSlot(pr) ==
    IF pr.waiting = 0 THEN pr
    ELSE IF pr.cancelled THEN [pr EXCEPT !.waiting = 0, !.skipped = @ + pr.waiting]
    ELSE [pr EXCEPT !.waiting = @ - 1, !.running = @ + 1]

\* every file is taken as readable
ParsesAlways(f) == TRUE

\* pd.read_csv / pd.read_excel read the uploaded file without an exception
Parses(f) == f.ok

\* first read of the job, then the file is parsed
ProcGet(j) ==
    /\ proc[j].pc = "get"
    /\ proc' = [proc EXCEPT ![j] =
                  IF db[j].status = "cancelled" THEN DoneProc
                  ELSE IF ~Parses(file[j]) THEN [@ EXCEPT !.pc = "err_get"]
                  ELSE [@ EXCEPT !.pc = "resolve"]]
    /\ UNCHANGED <<db, file, exports, nextJob, cancel, sched, sweep, restarts, cancels, boot, rowVars, sideVars>>

\* no semaphore: every row task starts at once
AcquiredAtStartUnbounded(rows) == rows

\* number of row tasks that find the row semaphore free when they start
AcquiredAtStart(rows) == Min(rows, concurrency_limit)

\* _fetch_gids_bulk returned: the row tasks are created, each passes its
\* first checkpoint and the first concurrency_limit of them take a slot
ProcResolve(j) ==
    /\ proc[j].pc = "resolve"
    /\ proc' = [proc EXCEPT ![j] =
                  [@ EXCEPT !.pc = "rows",
                            !.total_rows = file[j].rows,
                            !.running = AcquiredAtStart(file[j].rows),
                            !.waiting = file[j].rows - AcquiredAtStart(file[j].rows)]]
    /\ UNCHANGED <<db, file, exports, nextJob, cancel, sched, sweep, restarts, cancels, boot, rowVars, sideVars>>

\* a write for every completion
ProgressDueAlways(completed, total) == TRUE

ProgressDue(completed, total) ==
    completed % PROGRESS_EVERY = 0 \/ completed = total

\* one row's analysis ended (is_success or not); completed_count is
\* incremented and the progress callback is entered
Finished(pr, is_success) ==
    LET completed == pr.completed_count + 1
        counted == [pr EXCEPT !.running = @ - 1, !.completed_count = completed]
    IN IF ProgressDue(completed, pr.total_rows)
       THEN [counted EXCEPT !.prog = @ \cup
               {[completed |-> completed, is_success |-> is_success,
                 pc |-> "get", failed_rows |-> 0]}]
       ELSE ReleaseSlot(counted)

RowFinish(j, is_success) ==
    /\ proc[j].pc = "rows"
    /\ proc[j].running > 0
    /\ proc' = [proc EXCEPT ![j] = Finished(@, is_success)]
    /\ UNCHANGED <<db, file, exports, nextJob, cancel, sched, sweep, restarts, cancels, boot, rowVars, sideVars>>

\* on_progress: db.get and the status re-check
ProgressGet(j, p) ==
    /\ p \in proc[j].prog
    /\ p.pc = "get"
    /\ LET pr == proc[j] IN
        proc' = [proc EXCEPT ![j] =
            IF db[j].status = "cancelled"
            THEN ReleaseSlot([pr EXCEPT !.cancelled = TRUE, !.prog = @ \ {p}])
            ELSE [pr EXCEPT !.prog = (@ \ {p}) \cup
                    {[p EXCEPT !.pc = "commit", !.failed_rows = db[j].failed_rows]}]]
    /\ UNCHANGED <<db, file, exports, nextJob, cancel, sched, sweep, restarts, cancels, boot, rowVars, sideVars>>

\* only completed_rows is written
ProgressWriteNoTotal(job, p, total) ==
    [job EXCEPT !.completed_rows = p.completed,
                !.failed_rows = IF p.is_success THEN @ ELSE p.failed_rows + 1]

ProgressWrite(job, p, total) ==
    [job EXCEPT !.completed_rows = p.completed,
                !.total_rows = total,
                !.failed_rows = IF p.is_success THEN @ ELSE p.failed_rows + 1]

\* on_progress: the commit of the counters
ProgressCommit(j, p) ==
    /\ p \in proc[j].prog
    /\ p.pc = "commit"
    /\ db' = [db EXCEPT ![j] = ProgressWrite(@, p, proc[j].total_rows)]
    /\ proc' = [proc EXCEPT ![j] = ReleaseSlot([@ EXCEPT !.prog = @ \ {p}])]
    /\ UNCHANGED <<file, exports, nextJob, cancel, sched, sweep, restarts, cancels, boot, rowVars, sideVars>>

\* the exception leaves _process_row and gather: analyze_file raises
ProgressErrorEscapes(pr, p) == [pr EXCEPT !.pc = "err_get", !.prog = {}]

\* 'except: pass' around the progress callback: the row task returns its
\* result and leaves the row semaphore
ProgressErrorSwallowed(pr, p) == ReleaseSlot([pr EXCEPT !.prog = @ \ {p}])

\* on_progress raises in its db.get or in its commit: its session is left
\* and nothing is written
ProgressRaises(j, p) ==
    /\ p \in proc[j].prog
    /\ faults < MaxFaults
    /\ faults' = faults + 1
    /\ proc' = [proc EXCEPT ![j] = ProgressErrorSwallowed(@, p)]
    /\ UNCHANGED <<db, file, exports, nextJob, cancel, sched, sweep, restarts,
                   cancels, boot, rowVars, download, cache, auxVars>>

RowsDone(pr) ==
    pr.pc = "rows" /\ pr.running = 0 /\ pr.waiting = 0 /\ pr.prog = {}

\* gather returned; db.refresh(job); the result file is written unless the
\* refreshed status is CANCELLED
ProcRefresh(j) ==
    /\ RowsDone(proc[j])
    /\ proc' = [proc EXCEPT ![j] =
                  IF db[j].status = "cancelled" THEN DoneProc
                  ELSE [@ EXCEPT !.pc = "commit"]]
    /\ exports' = [exports EXCEPT ![j] =
                  IF db[j].status = "cancelled" THEN @
                  ELSE proc[j].completed_count]
    /\ UNCHANGED <<db, file, nextJob, cancel, sched, sweep, restarts, cancels, boot, rowVars, sideVars>>

\* the completion write without result_url
CompletedJobNoUrl(job, n) ==
    [job EXCEPT !.status = "completed",
                !.completed_at = TRUE,
                !.completed_rows = n,
                !.total_rows = n]

CompletedJob(job, n) ==
    [job EXCEPT !.status = "completed",
                !.completed_at = TRUE,
                !.completed_rows = n,
                !.total_rows = n,
                !.result_url = TRUE]

ProcCommit(j) ==
    /\ proc[j].pc = "commit"
    /\ db' = [db EXCEPT ![j] = CompletedJob(@, proc[j].completed_count)]
    /\ proc' = [proc EXCEPT ![j] = DoneProc]
    /\ UNCHANGED <<file, exports, nextJob, cancel, sched, sweep, restarts, cancels, boot, rowVars, sideVars>>

\* except branch: rollback, then the job is read again in err_db
ProcErrGet(j) ==
    /\ proc[j].pc = "err_get"
    /\ proc' = [proc EXCEPT ![j] =
                  IF db[j].status # "cancelled"
                  THEN [@ EXCEPT !.pc = "err_commit"] ELSE DoneProc]
    /\ UNCHANGED <<db, file, exports, nextJob, cancel, sched, sweep, restarts, cancels, boot, rowVars, sideVars>>

FailedJob(job) ==
    [job EXCEPT !.status = "failed",
                !.error_message = ERR_FAILED,
                !.completed_at = TRUE]

ProcErrCommit(j) ==
    /\ proc[j].pc = "err_commit"
    /\ db' = [db EXCEPT ![j] = FailedJob(@)]
    /\ proc' = [proc EXCEPT ![j] = DoneProc]
    /\ UNCHANGED <<file, exports, nextJob, cancel, sched, sweep, restarts, cancels, boot, rowVars, sideVars>>

\* db.rollback(), err_db.get or err_db.commit raises inside the except
\* branch: no handler encloses them, the exception leaves
\* process_job_background after its finally clause and the task ends with
\* nothing written
ProcErrRaises(j) ==
    /\ proc[j].pc \in {"err_get", "err_commit"}
    /\ faults < MaxFaults
    /\ faults' = faults + 1
    /\ proc' = [proc EXCEPT ![j] = DoneProc]
    /\ UNCHANGED <<db, file, exports, nextJob, cancel, sched, sweep, restarts,
                   cancels, boot, rowVars, download, cache, auxVars>>

\* the steps of the task of job j that the event loop runs when their
\* awaited call returns
TaskStep(j) ==
    \/ ProcGet(j)
    \/ ProcResolve(j)
    \/ \E is_success \in BOOLEAN : RowFinish(j, is_success)
    \/ \E p \in proc[j].prog : ProgressGet(j, p)
    \/ \E p \in proc[j].prog : ProgressCommit(j, p)
    \/ ProcRefresh(j)
    \/ ProcCommit(j)
    \/ ProcErrGet(j)
    \/ ProcErrCommit(j)

----------------------------------------------------------------------------
(* WebDriverPool: _start_drivers fills the queue, acquire takes a driver   *)
(* from it for the caller's block and its finally clause recycles the      *)
(* driver or resets it and puts it back.  A driver is its usage count.     *)

DriverCallerIds == 1..DriverCallers

NotHeld == -1

NoPool ==
    [pc |-> "new", started |-> 0, drivers |-> <<>>,
     held |-> [c \in DriverCallerIds |-> NotHeld]]

\* _start_drivers: pool_size creations, each failure is logged and skipped
StartDrivers(created) ==
    /\ wd.pc = "new"
    /\ wd' = [wd EXCEPT !.pc = "ready", !.started = created,
                        !.drivers = [k \in 1..created |-> 0]]
    /\ UNCHANGED <<engineVars, rowVars, download, cache, faults, frame>>

\* acquire: await self.drivers.get()
DriverGet(c) ==
    /\ wd.pc = "ready"
    /\ wd.held[c] = NotHeld
    /\ wd.drivers # <<>>
    /\ wd' = [wd EXCEPT !.held[c] = Head(wd.drivers), !.drivers = Tail(wd.drivers)]
    /\ UNCHANGED <<engineVars, rowVars, download, cache, faults, frame>>

\* the caller's block ended (it returned or raised) and the finally clause
\* ran: a driver at max_uses is quit and a new one is created and put, and
\* nothing is put if the creation fails; any other driver is reset and put
\* back, and if the reset fails a new driver is created and not put
DriverRelease(c, raises, fails) ==
    /\ wd.pc = "ready"
    /\ wd.held[c] # NotHeld
    /\ LET uses == IF raises THEN wd.held[c] ELSE wd.held[c] + 1
           drivers == IF uses >= max_uses
                      THEN (IF fails THEN wd.drivers ELSE Append(wd.drivers, 0))
                      ELSE (IF fails THEN wd.drivers ELSE Append(wd.drivers, uses))
       IN wd' = [wd EXCEPT !.held[c] = NotHeld, !.drivers = drivers]
    /\ UNCHANGED <<engineVars, rowVars, download, cache, faults, frame>>

----------------------------------------------------------------------------
(* analyze_file, between the parse of the file and the row pool: the       *)
(* caller's column_mapping is applied, then the heuristic rename of the    *)
(* latitude and longitude synonyms.                                        *)

\* column names of uploaded files and targets of column mappings
ColumnNames ==
    {"lat", "Latitude", "LNG", "lon", "PropertyLatitude", "PropertyLongitude",
     "Site Lat", "addr"}

\* targets as the caller may send them
MappingValues == ColumnNames \cup {" PropertyLatitude ", "PropertyLongitude ", ""}

\* str.strip() on the names above
Strip(name) ==
    CASE name = " PropertyLatitude " -> "PropertyLatitude"
      [] name = "PropertyLongitude " -> "PropertyLongitude"
      [] OTHER -> name

\* str.lower() on the names above
Lower(name) ==
    CASE name = "Latitude" -> "latitude"
      [] name = "LNG" -> "lng"
      [] name = "PropertyLatitude" -> "propertylatitude"
      [] name = "PropertyLongitude" -> "propertylongitude"
      [] name = "Site Lat" -> "site lat"
      [] OTHER -> name

NoFrame == [pc |-> "none", column_mapping |-> <<>>, read |-> <<>>,
            mapped |-> <<>>, columns |-> <<>>]

Range(s) == {s[k] : k \in 1..Len(s)}

\* sequences of at most n elements of S
RECURSIVE Headers(_, _)
Headers(S, n) ==
    IF n = 0 THEN {<<>>}
    ELSE LET shorter == Headers(S, n - 1)
         IN shorter \cup {Append(h, c) : h \in shorter, c \in S}

\* column_mapping as a sequence of <<source, target>> pairs with distinct
\* sources (a dict)
Mappings ==
    {m \in Headers(ColumnNames \X MappingValues, MaxMapped) :
        \A a, b \in 1..Len(m) : a # b => m[a][1] # m[b][1]}

\* the headers pd.read_csv and pd.read_excel return: the parser keeps the
\* column labels of one file distinct
FileHeaders ==
    {h \in Headers(ColumnNames, MaxColumns) :
        \A a, b \in 1..Len(h) : a # b => h[a] # h[b]}

\* clean_map = {k.strip(): v.strip() for k, v in ... if k and v}
CleanMap(column_mapping) ==
    LET kept == SelectSeq(column_mapping, LAMBDA e : e[1] # "" /\ e[2] # "")
    IN [k \in 1..Len(kept) |-> <<Strip(kept[k][1]), Strip(kept[k][2])>>]

\* df.rename(columns=mapper): a column that is a key of the mapper gets its
\* value, every other column keeps its name
Rename(columns, pairs) ==
    [k \in 1..Len(columns) |->
        IF \E e \in Range(pairs) : e[1] = columns[k]
        THEN (CHOOSE e \in Range(pairs) : e[1] = columns[k])[2]
        ELSE columns[k]]

\* the heuristic without its test of the existing columns
CanonicalAbsentAlways(columns, name) == TRUE

\* "<canonical>" not in df.columns
CanonicalAbsent(columns, name) == name \notin Range(columns)

\* col_map of the heuristic, as <<column, canonical>> pairs
HeuristicMap(columns) ==
    LET target(col) ==
          IF Lower(col) \in {"latitude", "lat"}
                /\ CanonicalAbsent(columns, "PropertyLatitude")
          THEN "PropertyLatitude"
          ELSE IF Lower(col) \in {"longitude", "lon", "lng"}
                /\ CanonicalAbsent(columns, "PropertyLongitude")
          THEN "PropertyLongitude"
          ELSE ""
        renamed == SelectSeq(columns, LAMBDA col : target(col) # "")
    IN [k \in 1..Len(renamed) |-> <<renamed[k], target(renamed[k])>>]

\* the file is parsed into a DataFrame with the given header
ReadColumns(columns, column_mapping) ==
    /\ frame.pc = "none"
    /\ frame' = [NoFrame EXCEPT !.pc = "read", !.column_mapping = column_mapping,
                                !.read = columns, !.columns = columns]
    /\ UNCHANGED <<engineVars, rowVars, download, cache, faults, wd>>

\* if column_mapping: df = df.rename(columns=clean_map)
ApplyMapping ==
    /\ frame.pc = "read"
    /\ LET columns == IF frame.column_mapping = <<>> THEN frame.columns
                      ELSE Rename(frame.columns, CleanMap(frame.column_mapping))
       IN frame' = [frame EXCEPT !.pc = "mapped", !.mapped = columns,
                                 !.columns = columns]
    /\ UNCHANGED <<engineVars, rowVars, download, cache, faults, wd>>

\* the heuristic: col_map is built over df.columns, then applied
ApplyHeuristic ==
    /\ frame.pc = "mapped"
    /\ frame' = [frame EXCEPT !.pc = "renamed",
                              !.columns = Rename(frame.columns, HeuristicMap(frame.columns))]
    /\ UNCHANGED <<engineVars, rowVars, download, cache, faults, wd>>

\* the next file
NextFile ==
    /\ frame.pc = "renamed"
    /\ frame' = NoFrame
    /\ UNCHANGED <<engineVars, rowVars, download, cache, faults, wd>>

----------------------------------------------------------------------------
(* analyze_file and _process_row with every row task kept apart: the row   *)
(* pool of one job, its results and the flattened rows of the result file. *)
(* A row is identified by its index in the input file.                     *)

TrackRowIds == 1..TrackRows

\* a row task returned None, or has not returned yet
NoResult == [idx |-> 0, error |-> "none", analysis |-> "none"]

\* asyncio.create_task(_process_row(i, row)): the task passes the first
\* checkpoint and acquires the row semaphore if a slot is free
NewRowTask(i) ==
    [pc |-> IF i <= concurrency_limit THEN "analysis" ELSE "waiting",
     result |-> NoResult, raised |-> FALSE,
     completed |-> 0, is_success |-> TRUE, failed_rows |-> 0]

IdlePool ==
    [job |-> 0,
     gid_map |-> [i \in TrackRowIds |-> FALSE],
     row |-> [i \in TrackRowIds |-> NewRowTask(i)],
     order |-> <<>>,
     completed_count |-> 0,
     cancelled |-> FALSE,
     flattened |-> <<>>]

\* the semaphore wakes its waiters in the order of their arrival, which is
\* the order of the rows; a woken row task runs the second checkpoint
HandOver(rows, cancelled) ==
    LET W == {i \in TrackRowIds : rows[i].pc = "waiting"} IN
    IF W = {} THEN rows
    ELSE IF cancelled
         THEN [i \in TrackRowIds |->
                 IF i \in W THEN [rows[i] EXCEPT !.pc = "skipped"] ELSE rows[i]]
         ELSE LET first == CHOOSE i \in W : \A k \in W : i <= k
              IN [rows EXCEPT ![first].pc = "analysis"]

\* the exception of a row analysis leaves the row task
CatchesRowExceptionNever == FALSE

\* try/except Exception around the analysis of a row
CatchesRowException == TRUE

\* a row without a parcel returns nothing
RowResultSkipUnresolved(i, resolved, outcome) ==
    IF ~resolved THEN NoResult
    ELSE IF outcome = "raises"
    THEN [idx |-> i, error |-> "exception", analysis |-> "none"]
    ELSE [idx |-> i, error |-> "none", analysis |-> outcome]

\* result_data of row i: the input row, plus "error" or "analysis"
RowResult(i, resolved, outcome) ==
    IF ~resolved
    THEN [idx |-> i, error |-> "No parcel found", analysis |-> "none"]
    ELSE IF outcome = "raises"
    THEN [idx |-> i, error |-> "exception", analysis |-> "none"]
    ELSE [idx |-> i, error |-> "none", analysis |-> outcome]

\* outcomes of the analysis of a resolved row: get_analysis returns the
\* analysis document, returns an error document, or an exception is raised
RowOutcomes == {"document", "error_document", "raises"}

\* _fetch_gids_bulk returned gid_map and the row tasks are created
TrackResolve(j, gid_map) ==
    /\ proc[j].pc = "resolve"
    /\ pool.job = 0
    /\ file[j].rows = TrackRows
    /\ proc' = [proc EXCEPT ![j] = [@ EXCEPT !.pc = "track", !.total_rows = TrackRows]]
    /\ pool' = [IdlePool EXCEPT !.job = j, !.gid_map = gid_map]
    /\ UNCHANGED <<db, file, exports, nextJob, cancel, sched, sweep, restarts,
                   cancels, boot, fan, sideVars>>

\* the analysis of row i ended: result_data is complete, completed_count
\* is incremented and the progress callback is entered
TrackRowEnd(j, i, outcome) ==
    /\ pool.job = j
    /\ proc[j].pc = "track"
    /\ pool.row[i].pc = "analysis"
    /\ pool.gid_map[i] \/ outcome = "document"
    /\ IF pool.gid_map[i] /\ outcome = "raises" /\ ~CatchesRowException
       THEN /\ proc' = [proc EXCEPT ![j] = [@ EXCEPT !.pc = "err_get"]]
            /\ UNCHANGED pool
       ELSE LET completed == pool.completed_count + 1
                due == ProgressDue(completed, TrackRows)
                ended == [pool.row EXCEPT ![i] =
                            [@ EXCEPT !.pc = IF due THEN "progress_get" ELSE "returned",
                                      !.result = RowResult(i, pool.gid_map[i], outcome),
                                      !.raised = pool.gid_map[i] /\ outcome = "raises",
                                      !.completed = completed,
                                      !.is_success = pool.gid_map[i] /\ outcome # "raises"]]
            IN /\ pool' = [pool EXCEPT
                              !.completed_count = completed,
                              !.order = Append(@, i),
                              !.row = IF due THEN ended
                                      ELSE HandOver(ended, pool.cancelled)]
               /\ UNCHANGED proc
    /\ UNCHANGED <<db, file, exports, nextJob, cancel, sched, sweep, restarts,
                   cancels, boot, fan, sideVars>>

\* on_progress of row i: db.get and the status re-check
TrackProgressGet(j, i) ==
    /\ pool.job = j
    /\ pool.row[i].pc = "progress_get"
    /\ pool' =
          IF db[j].status = "cancelled"
          THEN [pool EXCEPT !.cancelled = TRUE,
                            !.row = HandOver([@ EXCEPT ![i].pc = "returned"], TRUE)]
          ELSE [pool EXCEPT !.row[i].pc = "progress_commit",
                            !.row[i].failed_rows = db[j].failed_rows]
    /\ UNCHANGED <<db, file, exports, nextJob, cancel, sched, sweep, proc,
                   restarts, cancels, boot, fan, sideVars>>

\* on_progress of row i: the commit of the counters; the row task returns
TrackProgressCommit(j, i) ==
    /\ pool.job = j
    /\ pool.row[i].pc = "progress_commit"
    /\ db' = [db EXCEPT ![j] = ProgressWrite(@, pool.row[i], TrackRows)]
    /\ pool' = [pool EXCEPT
                  !.row = HandOver([@ EXCEPT ![i].pc = "returned"], pool.cancelled)]
    /\ UNCHANGED <<file, exports, nextJob, cancel, sched, sweep, proc, restarts,
                   cancels, boot, fan, sideVars>>

\* the results in the order in which the row tasks ended
GatherResultsAsCompleted(pl) ==
    [k \in 1..Len(pl.order) |-> pl.row[pl.order[k]].result]

\* asyncio.gather returns the results in the order of the tasks, and the
\* None results are dropped
GatherResults(pl) ==
    SelectSeq([i \in TrackRowIds |-> pl.row[i].result],
              LAMBDA r : r # NoResult)

\* flatten_analysis_results for one row: the input columns and "error" are
\* kept; derived columns exist for an analysis document without "error"
FlattenRow(r) ==
    [idx |-> r.idx, error |-> r.error, derived |-> r.analysis = "document"]

flatten_analysis_results(results) ==
    [k \in 1..Len(results) |-> FlattenRow(results[k])]

\* gather returned; db.refresh(job); unless the status is CANCELLED the
\* results are flattened and written to the result file
TrackGather(j) ==
    /\ pool.job = j
    /\ proc[j].pc = "track"
    /\ \A i \in TrackRowIds : pool.row[i].pc \in {"returned", "skipped"}
    /\ IF db[j].status = "cancelled"
       THEN /\ proc' = [proc EXCEPT ![j] = DoneProc]
            /\ UNCHANGED <<pool, exports>>
       ELSE LET flattened == flatten_analysis_results(GatherResults(pool)) IN
            /\ proc' = [proc EXCEPT ![j] = [@ EXCEPT !.pc = "track_commit"]]
            /\ pool' = [pool EXCEPT !.flattened = flattened]
            /\ exports' = [exports EXCEPT ![j] = Len(flattened)]
    /\ UNCHANGED <<db, file, nextJob, cancel, sched, sweep, restarts, cancels,
                   boot, fan, sideVars>>

\* the commit of COMPLETED with the number of flattened rows
TrackCommit(j) ==
    /\ pool.job = j
    /\ proc[j].pc = "track_commit"
    /\ db' = [db EXCEPT ![j] = CompletedJob(@, Len(pool.flattened))]
    /\ proc' = [proc EXCEPT ![j] = DoneProc]
    /\ UNCHANGED <<file, exports, nextJob, cancel, sched, sweep, restarts,
                   cancels, boot, rowVars, sideVars>>

----------------------------------------------------------------------------
(* AnalysisService.get_analysis, called by a row task that holds a slot of *)
(* its job's row semaphore.  The metric and image calls of all rows go     *)
(* through _exec_with_session and the semaphore of the one AnalysisService *)
(* instance that the BatchService singleton holds.                         *)

FanRowIds == (1..FanJobs) \X (1..FanRows)

IdleRow ==
    [pc |-> "task", dry_run |-> FALSE, pending |-> 0, executing |-> 0,
     images |-> 0, flood_hazard |-> "none", doc |-> "none"]

\* the flood_hazard call is told apart from the other metric and image calls
MetricKeys == {"flood_hazard", "other"}

\* row tasks of job j inside 'async with sem'
InSlot(j) == {r \in FanRowIds : r[1] = j /\ fan[r].pc \in {"slot", "analysis"}}

RECURSIVE SumExecuting(_)
SumExecuting(R) ==
    IF R = {} THEN 0
    ELSE LET r == CHOOSE x \in R : TRUE
         IN fan[r].executing + SumExecuting(R \ {r})

\* calls inside 'async with self.semaphore'
Executing == SumExecuting(FanRowIds)

\* one semaphore for each row instead of one for the service
SemaphoreFreePerRow(r) == fan[r].executing < ANALYSIS_SEMAPHORE

SemaphoreFree(r) == Executing < ANALYSIS_SEMAPHORE

\* images are generated for every job
GenerateImagesAlways(dry_run) == TRUE

\* generate_images=(not dry_run)
GenerateImages(dry_run) == ~dry_run

\* the exception of a metric call leaves _safe_run
SafeRunPropagates(raises) == IF raises THEN "raised" ELSE "value"

\* _safe_run: the value of the call, or the fragment
\* {"error": str(e), "status": "failed"} when it raised
SafeRun(raises) == IF raises THEN "failed" ELSE "value"

\* the row task acquires the row semaphore of its job; dry_run is the
\* flag of the job, the same for all its rows
FanRowAcquire(r, dry_run) ==
    /\ fan[r].pc = "task"
    /\ Cardinality(InSlot(r[1])) < concurrency_limit
    /\ \A q \in FanRowIds :
          (q[1] = r[1] /\ fan[q].pc # "task") => fan[q].dry_run = dry_run
    /\ fan' = [fan EXCEPT ![r].pc = "slot", ![r].dry_run = dry_run]
    /\ UNCHANGED <<engineVars, pool, sideVars>>

\* get_analysis found the parcel and gathers one _exec_with_session call
\* for each metric and, unless dry_run, for each image
FanStart(r, generate_images) ==
    LET images == IF generate_images THEN IMAGE_CALLS ELSE 0 IN
    /\ fan[r].pc = "slot"
    /\ fan' = [fan EXCEPT ![r] =
                 [@ EXCEPT !.pc = "analysis",
                           !.pending = METRIC_CALLS + images,
                           !.executing = 0,
                           !.images = images,
                           !.flood_hazard = "pending"]]
    /\ UNCHANGED <<engineVars, pool, sideVars>>

\* the calls of row r in the given state that are not the flood_hazard call
Others(r, n, state) == n - (IF fan[r].flood_hazard = state THEN 1 ELSE 0)

\* a call enters the semaphore
MetricAcquire(r, key) ==
    /\ fan[r].pc = "analysis"
    /\ fan[r].pending > 0
    /\ SemaphoreFree(r)
    /\ IF key = "flood_hazard"
       THEN /\ fan[r].flood_hazard = "pending"
            /\ fan' = [fan EXCEPT ![r].pending = @ - 1, ![r].executing = @ + 1,
                                  ![r].flood_hazard = "executing"]
       ELSE /\ Others(r, fan[r].pending, "pending") > 0
            /\ fan' = [fan EXCEPT ![r].pending = @ - 1, ![r].executing = @ + 1]
    /\ UNCHANGED <<engineVars, pool, sideVars>>

\* a call returns or raises and leaves the semaphore; _safe_run turns it
\* into the pair of its key and its value
MetricRelease(r, key, raises) ==
    /\ fan[r].pc = "analysis"
    /\ fan[r].executing > 0
    /\ IF key = "flood_hazard"
       THEN /\ fan[r].flood_hazard = "executing"
            /\ fan' = [fan EXCEPT ![r].executing = @ - 1,
                                  ![r].flood_hazard = SafeRun(raises)]
       ELSE /\ Others(r, fan[r].executing, "executing") > 0
            /\ fan' = [fan EXCEPT ![r].executing = @ - 1]
    /\ UNCHANGED <<engineVars, pool, sideVars>>

\* gather returned: final_output is built and get_analysis returns it, and
\* the row task leaves its slot; an exception that left gather is caught
\* by get_analysis, which returns {"error": str(e), "gid": gid}
FanGather(r) ==
    /\ fan[r].pc = "analysis"
    /\ \/ fan[r].pending = 0 /\ fan[r].executing = 0
       \/ fan[r].flood_hazard = "raised"
    /\ fan' = [fan EXCEPT ![r].pc = "returned",
                          ![r].doc = IF fan[r].flood_hazard = "raised"
                                     THEN "error_document" ELSE "document"]
    /\ UNCHANGED <<engineVars, pool, sideVars>>

\* flatten_analysis_results on the document of a row: the derived columns
\* are filled only for a document without an "error" key, flood_zone from
\* flood_hazard.flood_zone_summary with the default "X"
FlattenDocument(row) ==
    IF row.doc = "document"
    THEN [derived |-> TRUE,
          flood_zone |-> IF row.flood_hazard = "value"
                         THEN "flood_zone_summary" ELSE "X"]
    ELSE [derived |-> FALSE, flood_zone |-> "absent"]

\* row tasks of job j between 'async with sem' and completed_count += 1
InFlight(j) ==
    {r \in FanRowIds : r[1] = j /\ fan[r].pc \in {"slot", "analysis", "returned"}}

\* a row task of a running pool enters its analysis
FanRowBegin(r, dry_run) ==
    /\ proc[r[1]].pc = "rows"
    /\ Cardinality(InFlight(r[1])) < proc[r[1]].running
    /\ FanRowAcquire(r, dry_run)

\* the row task whose get_analysis returned keeps is_success True, counts
\* itself and enters the progress callback
FanRowFinish(r) ==
    /\ fan[r].pc = "returned"
    /\ proc[r[1]].pc = "rows"
    /\ proc[r[1]].running > 0
    /\ proc' = [proc EXCEPT ![r[1]] = Finished(@, TRUE)]
    /\ fan' = [fan EXCEPT ![r].pc = "counted"]
    /\ UNCHANGED <<db, file, exports, nextJob, cancel, sched, sweep, restarts,
                   cancels, boot, pool, sideVars>>

----------------------------------------------------------------------------
(* AnalysisService.get_analysis and _save_results on the analysis_results  *)
(* rows of one parcel.  Caller c is a row task of job c that passes its    *)
(* own session, processing_mode 'batch' and batch_id c.  A document is     *)
(* named after the call that computed it, so that two computations of the  *)
(* same parcel are told apart (meta.execution_time_seconds, batch).        *)

CallerIds == 1..CacheCallers

NoDoc == [by |-> 0, call |-> 0]

\* {"error": "No parcel found with GID: <gid>"}
NoParcelDoc == [by |-> 0, call |-> 1]

IdleCaller ==
    [pc |-> "idle", call |-> 0, force_refresh |-> <<>>, seen |-> NoDoc,
     existing |-> FALSE, doc |-> NoDoc, returned |-> <<>>, invoked |-> 0,
     alone |-> TRUE]

IdleCache ==
    [table |-> <<>>, parcel |-> "unknown",
     caller |-> [c \in CallerIds |-> IdleCaller]]

\* the cached document is never used
CacheHitNever(existing, force_refresh) == FALSE

CacheHit(existing, force_refresh) == existing /\ ~force_refresh

\* parcel_gid without its unique constraint
UniqueViolationNever(table) == FALSE

\* parcel_gid is unique: the INSERT of a second row for the parcel fails
UniqueViolation(table) == Len(table) > 0

\* caller c wrote result_data: no other call in flight ran alone
Wrote(c, table) ==
    [table |-> table, parcel |-> cache.parcel,
     caller |-> [d \in CallerIds |->
                   IF d = c THEN cache.caller[d]
                   ELSE [cache.caller[d] EXCEPT !.alone = FALSE]]]

Return(me, data) ==
    [me EXCEPT !.pc = "idle", !.returned = Append(@, data)]

\* get_analysis starts: unless force_refresh, the select of the cached row
CacheSelect(c, force_refresh) ==
    LET me == cache.caller[c] IN
    /\ me.pc = "idle"
    /\ me.call < CacheCalls
    /\ LET started == [me EXCEPT !.call = @ + 1,
                                 !.force_refresh = Append(@, force_refresh),
                                 !.alone = IF me.call = 0 THEN TRUE ELSE @]
       IN cache' = [cache EXCEPT !.caller[c] =
            IF CacheHit(Len(cache.table) > 0, force_refresh)
            THEN [started EXCEPT !.pc = "hit_commit", !.seen = cache.table[1]]
            ELSE [started EXCEPT !.pc = "parcel"]]
    /\ UNCHANGED <<engineVars, rowVars, download, faults, auxVars>>

\* cache hit in batch mode: batch_id and csv_source_data of the row are
\* updated and committed (result_data is set to the value it was loaded
\* with), and the loaded document is returned
CacheHitCommit(c) ==
    LET me == cache.caller[c] IN
    /\ me.pc = "hit_commit"
    /\ cache' = [cache EXCEPT !.caller[c] = Return(me, me.seen)]
    /\ UNCHANGED <<engineVars, rowVars, download, faults, auxVars>>

\* __get_parcel_data: without a parcel the error document is returned
ParcelData(c, found) ==
    LET me == cache.caller[c] IN
    /\ me.pc = "parcel"
    /\ cache.parcel \in {"unknown", IF found THEN "found" ELSE "missing"}
    /\ cache' = [cache EXCEPT
                   !.parcel = IF found THEN "found" ELSE "missing",
                   !.caller[c] = IF found THEN [me EXCEPT !.pc = "gather"]
                                 ELSE Return(me, NoParcelDoc)]
    /\ UNCHANGED <<engineVars, rowVars, download, faults, auxVars>>

\* the metric and image calls are gathered into final_output
CacheGather(c) ==
    LET me == cache.caller[c] IN
    /\ me.pc = "gather"
    /\ cache' = [cache EXCEPT !.caller[c] =
                   [me EXCEPT !.pc = "save_select",
                              !.doc = [by |-> c, call |-> me.call],
                              !.invoked = @ + 1]]
    /\ UNCHANGED <<engineVars, rowVars, download, faults, auxVars>>

\* _save_results: the select of the existing record
SaveSelect(c) ==
    LET me == cache.caller[c] IN
    /\ me.pc = "save_select"
    /\ cache' = [cache EXCEPT !.caller[c] =
                   [me EXCEPT !.pc = "save_commit",
                              !.existing = Len(cache.table) > 0]]
    /\ UNCHANGED <<engineVars, rowVars, download, faults, auxVars>>

\* _save_results: the commit of the UPDATE of the record it selected, or
\* of the INSERT of a new one; an IntegrityError is logged and rolled
\* back.  get_analysis returns final_output either way
SaveCommit(c) ==
    LET me == cache.caller[c]
        table == IF me.existing
                 THEN [cache.table EXCEPT ![1] = me.doc]
                 ELSE IF UniqueViolation(cache.table)
                 THEN cache.table
                 ELSE Append(cache.table, me.doc)
    IN
    /\ me.pc = "save_commit"
    /\ cache' = [(IF table = cache.table THEN cache ELSE Wrote(c, table))
                   EXCEPT !.caller[c] = Return(me, me.doc)]
    /\ UNCHANGED <<engineVars, rowVars, download, faults, auxVars>>

----------------------------------------------------------------------------
(* download_batch_result: one db.get of the job, then the checks of the    *)
(* status, of result_url and of the file on disk, then the FileResponse.   *)

NoDownload == [job |-> 0, kind |-> "none", status |-> "none"]

\* the file is served whenever the record has a result_url
DownloadReadyIfUrl(job) == job.result_url

DownloadReady(job) == job.status = "completed"

download_batch_result(j) ==
    LET job == db[j] IN
    /\ download' =
         IF job.status = "absent"
         THEN [job |-> j, kind |-> "not_found", status |-> "none"]
         ELSE IF ~DownloadReady(job)
         THEN [job |-> j, kind |-> "not_ready", status |-> job.status]
         ELSE IF ~job.result_url \/ exports[j] = NoExport
         THEN [job |-> j, kind |-> "missing", status |-> "none"]
         ELSE [job |-> j, kind |-> "file", status |-> "none"]
    /\ UNCHANGED <<engineVars, rowVars, cache, faults, auxVars>>

----------------------------------------------------------------------------
(* The process dies and is started again: lifespan creates the sweep task  *)
(* and the scheduler task; every task of the old run is gone.              *)

Restart ==
    /\ restarts < MaxRestarts
    /\ restarts' = restarts + 1
    /\ boot' = [j \in JobIds |-> db[j].status]
    /\ sched' = IdleSched
    /\ sweep' = [pc |-> "select", stuck_jobs |-> {}]
    /\ proc' = [j \in JobIds |-> IdleProc]
    /\ cancel' = [j \in JobIds |-> "idle"]
    /\ fan' = [r \in FanRowIds |-> IdleRow]
    /\ pool' = IdlePool
    /\ UNCHANGED <<db, file, exports, nextJob, cancels, sideVars>>

----------------------------------------------------------------------------

Init ==
    /\ db = [j \in JobIds |-> NoJob]
    /\ file = [j \in JobIds |-> NoFile]
    /\ exports = [j \in JobIds |-> NoExport]
    /\ nextJob = 0
    /\ cancel = [j \in JobIds |-> "idle"]
    /\ sched = IdleSched
    /\ sweep = [pc |-> "select", stuck_jobs |-> {}]
    /\ proc = [j \in JobIds |-> IdleProc]
    /\ restarts = 0
    /\ cancels = 0
    /\ boot = [j \in JobIds |-> "absent"]
    /\ fan = [r \in FanRowIds |-> IdleRow]
    /\ pool = IdlePool
    /\ download = NoDownload
    /\ cache = IdleCache
    /\ faults = 0
    /\ frame = NoFrame
    /\ wd = NoPool

Engine(cap, prios, rowCounts, oks, outcomes, maxCancels) ==
    \/ \E prio \in prios, rows \in rowCounts, ok \in oks :
            SubmitJob(cap, prio, rows, ok)
    \/ \E j \in Stored : CancelGet(j, maxCancels)
    \/ \E j \in JobIds : CancelCommit(j)
    \/ SweepSelect
    \/ SweepCommit
    \/ SchedCount
    \/ SchedSelect
    \/ SchedPromote
    \/ \E j \in JobIds : ProcGet(j)
    \/ \E j \in JobIds : ProcResolve(j)
    \/ \E j \in JobIds, is_success \in outcomes : RowFinish(j, is_success)
    \/ \E j \in JobIds : \E p \in proc[j].prog : ProgressGet(j, p)
    \/ \E j \in JobIds : \E p \in proc[j].prog : ProgressCommit(j, p)
    \/ \E j \in JobIds : ProcRefresh(j)
    \/ \E j \in JobIds : ProcCommit(j)

ErrorPath ==
    \/ \E j \in JobIds : ProcErrGet(j)
    \/ \E j \in JobIds : ProcErrCommit(j)

\* The whole engine on a small population: files that parse or not, rows
\* that succeed or not, cancel requests and a restart of the process.
Next ==
    \/ Engine(LifeJobs, {"normal"}, {FewRows}, BOOLEAN, BOOLEAN, LifeCancels)
    \/ ErrorPath
    \/ Restart

Spec == Init /\ [][Next]_vars

\* Admission: more jobs than the ceiling admits, parseable files.
NextAdmission ==
    Engine(AdmissionJobs, {"normal"}, {FewRows}, {TRUE}, {TRUE}, AdmissionCancels)

SpecAdmission == Init /\ [][NextAdmission]_vars

\* Starvation: more jobs than the ceiling admits and no cancel request,
\* with every awaited call returning, so that the scheduler and every task
\* take their next step eventually.
NextStarvation ==
    \/ SubmitJob(AdmissionJobs, "normal", FewRows, TRUE)
    \/ SweepSelect
    \/ SweepCommit
    \/ SchedCount
    \/ SchedSelect
    \/ SchedPromote
    \/ \E j \in JobIds : ProcGet(j)
    \/ \E j \in JobIds : ProcResolve(j)
    \/ \E j \in JobIds : RowFinish(j, TRUE)
    \/ \E j \in JobIds : \E p \in proc[j].prog : ProgressGet(j, p)
    \/ \E j \in JobIds : \E p \in proc[j].prog : ProgressCommit(j, p)
    \/ \E j \in JobIds : ProcRefresh(j)
    \/ \E j \in JobIds : ProcCommit(j)

SpecStarvation ==
    /\ Init
    /\ [][NextStarvation]_vars
    /\ WF_vars(SchedCount \/ SchedSelect \/ SchedPromote)
    /\ \A j \in JobIds : WF_vars(TaskStep(j))

\* Admission with two priority lanes and no cancel request.
NextPriority ==
    \/ \E prio \in {"low", "high"} : SubmitJob(AdmissionJobs, prio, FewRows, TRUE)
    \/ SweepSelect
    \/ SweepCommit
    \/ SchedCount
    \/ SchedSelect
    \/ SchedPromote
    \/ \E j \in JobIds : ProcGet(j)
    \/ \E j \in JobIds : ProcResolve(j)
    \/ \E j \in JobIds : RowFinish(j, TRUE)
    \/ \E j \in JobIds : \E p \in proc[j].prog : ProgressGet(j, p)
    \/ \E j \in JobIds : \E p \in proc[j].prog : ProgressCommit(j, p)
    \/ \E j \in JobIds : ProcRefresh(j)
    \/ \E j \in JobIds : ProcCommit(j)

SpecPriority == Init /\ [][NextPriority]_vars

\* Progress: one job whose file has more rows than one progress batch.
NextProgress ==
    \/ Engine(ProgressJobs, {"normal"}, {ManyRows}, BOOLEAN, BOOLEAN, ProgressCancels)
    \/ ErrorPath

SpecProgress == Init /\ [][NextProgress]_vars

\* Row pool: one job with more rows than two progress batches, so that row
\* tasks still wait for the row semaphore when the reporter polls the status.
NextPool ==
    Engine(ProgressJobs, {"normal"}, {PoolRows}, {TRUE}, BOOLEAN, ProgressCancels)

SpecPool == Init /\ [][NextPool]_vars

\* Fan-out: the analyses of rows of several jobs and their metric calls.
NextFanout ==
    \/ \E r \in FanRowIds, dry_run \in BOOLEAN : FanRowAcquire(r, dry_run)
    \/ \E r \in FanRowIds : FanStart(r, GenerateImages(fan[r].dry_run))
    \/ \E r \in FanRowIds, key \in MetricKeys : MetricAcquire(r, key)
    \/ \E r \in FanRowIds, key \in MetricKeys : MetricRelease(r, key, FALSE)
    \/ \E r \in FanRowIds : FanGather(r)

SpecFanout == Init /\ [][NextFanout]_vars

\* Drivers: callers that acquire and release drivers, with blocks that
\* raise and with resets and creations that fail.
NextDrivers ==
    \/ \E created \in 0..PoolSize : StartDrivers(created)
    \/ \E c \in DriverCallerIds : DriverGet(c)
    \/ \E c \in DriverCallerIds, raises \in BOOLEAN, fails \in BOOLEAN :
            DriverRelease(c, raises, fails)

SpecDrivers == Init /\ [][NextDrivers]_vars

\* Columns: the renaming of the columns of every small header under every
\* small column_mapping.
NextColumns ==
    \/ /\ frame.pc = "none"
       /\ \E columns \in FileHeaders, column_mapping \in Mappings :
            ReadColumns(columns, column_mapping)
    \/ ApplyMapping
    \/ ApplyHeuristic
    \/ NextFile

SpecColumns == Init /\ [][NextColumns]_vars

\* Swallowed progress errors: one job with more rows than one progress
\* batch whose progress reports can raise.
NextSwallow ==
    \/ Engine(ProgressJobs, {"normal"}, {ManyRows}, BOOLEAN, BOOLEAN, ProgressCancels)
    \/ ErrorPath
    \/ \E j \in JobIds : \E p \in proc[j].prog : ProgressRaises(j, p)

SpecSwallow == Init /\ [][NextSwallow]_vars

\* Resilience: the scheduler with database errors in its ticks.  The
\* scheduler task is an asyncio task that sleeps 5 s between ticks, so its
\* next step is always taken eventually.
NextResilient ==
    \/ SubmitJob(LifeJobs, "normal", FewRows, TRUE)
    \/ SweepSelect
    \/ SweepCommit
    \/ SchedCount
    \/ SchedSelect
    \/ SchedPromote
    \/ SchedRaises
    \/ \E j \in JobIds : ProcGet(j)
    \/ \E j \in JobIds : ProcResolve(j)
    \/ \E j \in JobIds : RowFinish(j, TRUE)
    \/ \E j \in JobIds : \E p \in proc[j].prog : ProgressGet(j, p)
    \/ \E j \in JobIds : \E p \in proc[j].prog : ProgressCommit(j, p)
    \/ \E j \in JobIds : ProcRefresh(j)
    \/ \E j \in JobIds : ProcCommit(j)

SpecResilient ==
    /\ Init
    /\ [][NextResilient]_vars
    /\ WF_vars(SchedCount \/ SchedSelect \/ SchedPromote)

\* Termination: jobs whose files parse or not, with database errors in the
\* except branch of process_job_background and no restart.  Every awaited
\* call returns, so the scheduler and every task take their next step
\* eventually.
NextTermination ==
    \/ \E ok \in BOOLEAN : SubmitJob(LifeJobs, "normal", FewRows, ok)
    \/ SweepSelect
    \/ SweepCommit
    \/ SchedCount
    \/ SchedSelect
    \/ SchedPromote
    \/ \E j \in JobIds : TaskStep(j)
    \/ \E j \in JobIds : ProcErrRaises(j)

SpecTermination ==
    /\ Init
    /\ [][NextTermination]_vars
    /\ WF_vars(SchedCount \/ SchedSelect \/ SchedPromote)
    /\ \A j \in JobIds : WF_vars(TaskStep(j))

\* Metrics: a job whose row is analysed call by call, with a flood_hazard
\* call that returns or raises, up to the commit of the job.
NextMetrics ==
    \/ SubmitJob(ProgressJobs, "normal", FewRows, TRUE)
    \/ SweepSelect
    \/ SweepCommit
    \/ SchedCount
    \/ SchedSelect
    \/ SchedPromote
    \/ \E j \in JobIds : ProcGet(j)
    \/ \E j \in JobIds : ProcResolve(j)
    \/ \E r \in FanRowIds, dry_run \in BOOLEAN : FanRowBegin(r, dry_run)
    \/ \E r \in FanRowIds : FanStart(r, GenerateImages(fan[r].dry_run))
    \/ \E r \in FanRowIds, key \in MetricKeys : MetricAcquire(r, key)
    \/ \E r \in FanRowIds, key \in MetricKeys, raises \in BOOLEAN :
            MetricRelease(r, key, raises)
    \/ \E r \in FanRowIds : FanGather(r)
    \/ \E r \in FanRowIds : FanRowFinish(r)
    \/ \E j \in JobIds : \E p \in proc[j].prog : ProgressGet(j, p)
    \/ \E j \in JobIds : \E p \in proc[j].prog : ProgressCommit(j, p)
    \/ \E j \in JobIds : ProcRefresh(j)
    \/ \E j \in JobIds : ProcCommit(j)

SpecMetrics == Init /\ [][NextMetrics]_vars

\* Rows: one job whose row tasks are kept apart, with rows that resolve to
\* a parcel or not and analyses that return or raise.
NextRows ==
    \/ \E ok \in BOOLEAN : SubmitJob(ProgressJobs, "normal", TrackRows, ok)
    \/ \E j \in Stored : CancelGet(j, ProgressCancels)
    \/ \E j \in JobIds : CancelCommit(j)
    \/ SweepSelect
    \/ SweepCommit
    \/ SchedCount
    \/ SchedSelect
    \/ SchedPromote
    \/ \E j \in JobIds : ProcGet(j)
    \/ \E j \in JobIds : \E gid_map \in [TrackRowIds -> BOOLEAN] : TrackResolve(j, gid_map)
    \/ \E j \in JobIds, i \in TrackRowIds, outcome \in RowOutcomes :
            TrackRowEnd(j, i, outcome)
    \/ \E j \in JobIds, i \in TrackRowIds : TrackProgressGet(j, i)
    \/ \E j \in JobIds, i \in TrackRowIds : TrackProgressCommit(j, i)
    \/ \E j \in JobIds : TrackGather(j)
    \/ \E j \in JobIds : TrackCommit(j)
    \/ ErrorPath

SpecRows == Init /\ [][NextRows]_vars

\* Empty input: files that parse to no data row at all (a header-only CSV)
\* next to files with rows.
\* jobs with a download request at any moment of their life
NextDownload ==
    \/ Engine(ProgressJobs, {"normal"}, {FewRows}, BOOLEAN, BOOLEAN, ProgressCancels)
    \/ ErrorPath
    \/ \E j \in JobIds : download_batch_result(j)

SpecDownload == Init /\ [][NextDownload]_vars

\* row tasks of different jobs analysing the same parcel
NextCache ==
    \/ \E c \in CallerIds, force_refresh \in BOOLEAN : CacheSelect(c, force_refresh)
    \/ \E c \in CallerIds : CacheHitCommit(c)
    \/ \E c \in CallerIds, found \in BOOLEAN : ParcelData(c, found)
    \/ \E c \in CallerIds : CacheGather(c)
    \/ \E c \in CallerIds : SaveSelect(c)
    \/ \E c \in CallerIds : SaveCommit(c)

SpecCache == Init /\ [][NextCache]_vars

NextEmpty ==
    \/ Engine(LifeJobs, {"normal"}, 0..FewRows, BOOLEAN, BOOLEAN, ProgressCancels)
    \/ ErrorPath

SpecEmpty == Init /\ [][NextEmpty]_vars

----------------------------------------------------------------------------
(* Properties *)

\* HIGH > NORMAL > LOW
PriorityRank(p) == CASE p = "low" -> 0 [] p = "normal" -> 1 [] p = "high" -> 2

Counters(job) == <<job.completed_rows, job.total_rows, job.failed_rows>>

Promoted(j) == db[j].status # "processing" /\ db'[j].status = "processing"

\* C1: once the stored status of a job is COMPLETED, FAILED or CANCELLED, no
\* write changes it to a different status.
TerminalFinality ==
    [][\A j \in JobIds :
         db[j].status \in Terminal => db'[j].status = db[j].status]_vars

\* C2: at most MAX_CONCURRENT_JOBS jobs are stored as PROCESSING.
AdmissionCeiling ==
    Cardinality(WithStatus("processing")) <= MAX_CONCURRENT_JOBS

\* the ceiling is reached while a job is still queued
AdmissionCeilingReached ==
    /\ Cardinality(WithStatus("processing")) = MAX_CONCURRENT_JOBS
    /\ WithStatus("queued") # {}
    /\ sched.pc = "sleep"

\* C3: when a tick selects a QUEUED job, every QUEUED job of strictly higher
\* priority is selected in the same tick.
PriorityAdmission ==
    [][(sched.pc = "select" /\ sched'.pc = "promote") =>
         \A i \in 1..Len(sched'.jobs_to_run) : \A k \in WithStatus("queued") :
            PriorityRank(db[k].priority) >
                PriorityRank(db[sched'.jobs_to_run[i]].priority)
            => \E h \in 1..Len(sched'.jobs_to_run) : sched'.jobs_to_run[h] = k]_vars

SweepBeforeScheduler ==
    \A j \in JobIds :
        (db[j].status = "failed" /\ db[j].error_message = ERR_INTERRUPTED)
        => proc[j].pc = "none"

\* C6: the sweep's commit leaves every job that was PROCESSING when the
\* process died FAILED with the interrupted message and a completion
\* timestamp, and changes no job that was QUEUED, COMPLETED, FAILED or
\* CANCELLED then.
RecoverySweepEffect ==
    [][(sweep.pc = "commit" /\ sweep'.pc = "done") =>
         \A j \in JobIds :
            /\ boot[j] = "processing" =>
                  /\ db'[j].status = "failed"
                  /\ db'[j].error_message = ERR_INTERRUPTED
                  /\ db'[j].completed_at
            /\ boot[j] \in {"queued", "completed", "failed", "cancelled"} =>
                  db'[j] = db[j]]_vars

\* C7: the stored completed_rows of a job never decreases.
MonotonicProgress ==
    [][\A j \in JobIds : db'[j].completed_rows >= db[j].completed_rows]_vars

\* C8: the stored completed_rows never exceeds the stored total_rows.
CounterBound ==
    \A j \in JobIds : db[j].completed_rows <= db[j].total_rows

\* a progress write of a full batch is stored while rows are still running
CounterBoundCase ==
    \E j \in JobIds :
        /\ db[j].status = "processing"
        /\ db[j].completed_rows = PROGRESS_EVERY
        /\ db[j].total_rows > PROGRESS_EVERY
        /\ proc[j].pc = "rows"

\* C9: a cancel request that reads QUEUED or PROCESSING commits CANCELLED
\* with completed_at and touches no other job; a cancel request that reads
\* COMPLETED, FAILED or CANCELLED writes nothing.
CancelOperation ==
    [][restarts' = restarts =>
         \A j \in JobIds :
            /\ (cancel[j] = "commit" /\ cancel'[j] = "idle") =>
                  /\ db'[j].status = "cancelled"
                  /\ db'[j].completed_at
                  /\ \A k \in JobIds \ {j} : db'[k] = db[k]
            /\ (cancel[j] = "idle" /\ cancel'[j] = "commit") =>
                  db[j].status \in {"queued", "processing"}
            /\ (cancels' # cancels /\ db[j].status \in Terminal) =>
                  (cancel'[j] = cancel[j] /\ db' = db)]_vars

\* a job was cancelled while queued and a second request found it CANCELLED
CancelOperationCase ==
    /\ nextJob = 1
    /\ db[1].status = "cancelled"
    /\ db[1].completed_at
    /\ ~db[1].started_at
    /\ cancels = 2
    /\ cancel[1] = "idle"

\* C10: while the stored status of a job is CANCELLED, the progress reporter
\* of its row pool writes none of its counters.
NoCounterResurrection ==
    [][\A j \in JobIds :
         (db[j].status = "cancelled" /\ proc[j].pc = "rows")
         => Counters(db'[j]) = Counters(db[j])]_vars

\* C11: a job whose stored status is CANCELLED has no result_url and no
\* result file.
NoArtifactOnCancel ==
    \A j \in JobIds :
        db[j].status = "cancelled"
        => (~db[j].result_url /\ exports[j] = NoExport)

\* C12: once the cancellation flag of a job is set, no row task starts an
\* analysis, every row task that waited for the semaphore is skipped without
\* being counted as completed, and the rows returned by the pool are the rows
\* that were not skipped.
CancellationCheckpoints ==
    [][\A j \in JobIds :
         (proc[j].pc = "rows" /\ proc'[j].pc = "rows" /\ proc'[j].cancelled) =>
            /\ proc'[j].running <= proc[j].running
            /\ proc'[j].waiting = 0
            /\ proc'[j].skipped = proc[j].skipped + proc[j].waiting
            /\ proc'[j].completed_count - proc[j].completed_count
                  = proc[j].running - proc'[j].running
            /\ RowsDone(proc'[j]) =>
                  proc'[j].completed_count = proc'[j].total_rows - proc'[j].skipped]_vars

\* the flag is set, waiting rows were skipped and other rows still run
CancellationCheckpointsCase ==
    \E j \in JobIds :
        /\ proc[j].pc = "rows"
        /\ proc[j].cancelled
        /\ proc[j].skipped > 0
        /\ proc[j].running > 0

\* C13: while the stored status of a job is CANCELLED, no row task of the
\* job passes a checkpoint and starts its analysis.
CancelAtNextCheckpoint ==
    [][\A j \in JobIds :
         (db[j].status = "cancelled" /\ proc[j].pc \in {"resolve", "rows"})
         => proc'[j].running <= proc[j].running]_vars

\* C14: a QUEUED job changes status only to PROCESSING, written by the
\* scheduler, or to CANCELLED, written by a cancel request; a job that is
\* not yet terminal becomes COMPLETED or FAILED only from PROCESSING.
AllowedTransitions ==
    [][\A j \in JobIds :
         /\ (db[j].status = "queued" /\ db'[j].status # "queued") =>
               \/ /\ db'[j].status = "processing"
                  /\ sched.pc = "promote" /\ Head(sched.jobs_to_run) = j
                  /\ sched' # sched
               \/ /\ db'[j].status = "cancelled"
                  /\ cancel[j] = "commit" /\ cancel'[j] = "idle"
         /\ (db[j].status \notin Terminal /\ db'[j].status \in {"completed", "failed"})
               => db[j].status = "processing"]_vars

\* one job was cancelled while QUEUED, another one went through PROCESSING
\* to COMPLETED or FAILED
AllowedTransitionsCase ==
    \E j, k \in JobIds :
        /\ db[j].status = "cancelled" /\ ~db[j].started_at
        /\ db[k].status \in {"completed", "failed"} /\ db[k].started_at
        /\ db[k].error_message # ERR_CANCELLED

\* jobs whose row pool has a row analysis in flight
PoolsInFlight == {j \in JobIds : proc[j].pc = "rows" /\ proc[j].running > 0}

\* C15: at most MAX_CONCURRENT_JOBS jobs have a row analysis in flight.
RunningPoolsCeiling ==
    Cardinality(PoolsInFlight) <= MAX_CONCURRENT_JOBS

\* row tasks of a job between acquiring and releasing the row semaphore:
\* those in their analysis and those in the progress callback
HoldingSlot(j) == proc[j].running + Cardinality(proc[j].prog)

\* C16: at most concurrency_limit row tasks of one job hold the job's row
\* semaphore.
RowConcurrencyBound ==
    \A j \in JobIds : HoldingSlot(j) <= concurrency_limit

\* the semaphore is exhausted after some rows finished, rows are waiting
RowConcurrencyBoundCase ==
    \E j \in JobIds :
        /\ proc[j].running = concurrency_limit
        /\ proc[j].waiting > 0
        /\ proc[j].completed_count > 0

\* C17: at most ANALYSIS_SEMAPHORE metric or image calls execute at any
\* moment over all rows of all jobs, and while a row analysis is pending
\* some call can always enter the semaphore, return or complete the row.
GlobalFanoutBound ==
    /\ Executing <= ANALYSIS_SEMAPHORE
    /\ (\E r \in FanRowIds : fan[r].pc = "analysis")
         => ENABLED (\E r \in FanRowIds :
                        \/ \E key \in MetricKeys :
                              MetricAcquire(r, key) \/ MetricRelease(r, key, FALSE)
                        \/ FanGather(r))

\* the semaphore is full with calls of rows of two jobs, and calls of rows
\* that hold a row slot wait for it
GlobalFanoutBoundCase ==
    /\ Executing = ANALYSIS_SEMAPHORE
    /\ \E r, q \in FanRowIds :
          /\ r[1] # q[1]
          /\ fan[r].executing > 0 /\ fan[q].executing > 0
          /\ fan[r].pending > 0 /\ fan[q].pending > 0

\* the flattened rows that belong to input row i
FlatOf(i) == {k \in 1..Len(pool.flattened) : pool.flattened[k].idx = i}

\* C18: a row whose analysis raised carries the error in its result, every
\* row of the job is still returned by the pool, and only a file that does
\* not parse sends the job to the error path and to FAILED with an error.
RowFailureIsolation ==
    \A j \in JobIds :
        /\ pool.job = j =>
              /\ \A i \in TrackRowIds :
                    pool.row[i].raised =>
                        /\ pool.row[i].result.idx = i
                        /\ pool.row[i].result.error = "exception"
              /\ (proc[j].pc = "track_commit" /\ ~pool.cancelled) =>
                    \A i \in TrackRowIds : FlatOf(i) # {}
        /\ proc[j].pc \in {"err_get", "err_commit"} => ~file[j].ok
        /\ (db[j].status = "failed" /\ db[j].error_message = ERR_FAILED)
              => ~file[j].ok

\* the analysis of one row raised, another row has its derived columns and
\* the job is COMPLETED
RowFailureIsolationCase ==
    \E j \in JobIds :
        /\ pool.job = j
        /\ db[j].status = "completed"
        /\ \E i \in TrackRowIds : pool.row[i].raised
        /\ \E k \in 1..Len(pool.flattened) : pool.flattened[k].derived

\* C19: the completion commit of a job whose pool saw no cancellation
\* stores COMPLETED with total_rows = completed_rows = N = rows of the result
\* file, every row without a parcel is in the file with the 'No parcel
\* found' marker and without derived columns, and the processing task of a
\* job that was never asked to cancel ends with that commit.
UnresolvedRowsComplete ==
    [][\A j \in JobIds :
         /\ (pool.job = j /\ proc[j].pc = "track_commit" /\ proc'[j].pc = "done"
                /\ ~pool.cancelled) =>
               /\ db'[j].status = "completed"
               /\ db'[j].total_rows = TrackRows
               /\ db'[j].completed_rows = TrackRows
               /\ exports[j] = TrackRows
               /\ Len(pool.flattened) = TrackRows
               /\ \A i \in TrackRowIds : ~pool.gid_map[i] =>
                     /\ FlatOf(i) # {}
                     /\ \A k \in FlatOf(i) :
                           /\ pool.flattened[k].error = "No parcel found"
                           /\ ~pool.flattened[k].derived
         /\ (pool.job = j /\ proc[j].pc = "done" /\ file[j].ok /\ cancels = 0) =>
               /\ db[j].result_url
               /\ db[j].total_rows = TrackRows
               /\ db[j].completed_rows = TrackRows
               /\ exports[j] = TrackRows]_vars

\* a job with a row without a parcel and a row with its derived columns is
\* COMPLETED, and no cancel was requested
UnresolvedRowsCompleteCase ==
    \E j \in JobIds :
        /\ pool.job = j
        /\ cancels = 0
        /\ db[j].status = "completed"
        /\ db[j].completed_rows = TrackRows
        /\ \E i \in TrackRowIds : ~pool.gid_map[i]
        /\ \E k \in 1..Len(pool.flattened) : pool.flattened[k].derived

\* C20: the i-th flattened row of a COMPLETED job is the i-th input row.
OutputOrder ==
    \A j \in JobIds :
        (pool.job = j /\ db[j].status = "completed") =>
            \A k \in 1..Len(pool.flattened) : pool.flattened[k].idx = k

\* the job is COMPLETED and its last row was the first one to end
OutputOrderCase ==
    \E j \in JobIds :
        /\ pool.job = j
        /\ db[j].status = "completed"
        /\ Len(pool.flattened) = TrackRows
        /\ pool.order[1] = TrackRows

\* C23: for a job whose file does not parse, no parcel is resolved, no row
\* is analysed, no counter and no result file is written; the error path
\* commits FAILED with the error message on the job it read as not
\* cancelled, and without a cancel request the finished task leaves FAILED.
FatalParseFailure ==
    [][\A j \in Stored :
         ~file[j].ok =>
            /\ proc[j].pc \in {"none", "get", "err_get", "err_commit", "done"}
            /\ Counters(db[j]) = <<0, 0, 0>>
            /\ exports[j] = NoExport
            /\ ~db[j].result_url
            /\ (proc[j].pc = "err_commit" /\ proc'[j].pc = "done") =>
                  /\ db'[j].status = "failed"
                  /\ db'[j].error_message = ERR_FAILED
                  /\ db'[j].completed_at
            /\ (proc[j].pc = "get" /\ db[j].status = "processing") =>
                  proc'[j].pc \in {"get", "err_get", "none"}
            /\ (proc[j].pc = "done" /\ cancels = 0) => db[j].status = "failed"]_vars

\* the error path turned a PROCESSING job with an unreadable file FAILED
FatalParseFailureCase ==
    \E j \in Stored :
        /\ ~file[j].ok
        /\ proc[j].pc = "done"
        /\ db[j].status = "failed"
        /\ db[j].error_message = ERR_FAILED
        /\ db[j].started_at

\* C24: a job whose file parses to zero data rows is never COMPLETED and
\* has no result file.
ZeroRowsFatal ==
    \A j \in Stored :
        (file[j].ok /\ file[j].rows = 0) =>
            /\ db[j].status # "completed"
            /\ exports[j] = NoExport
            /\ ~db[j].result_url

\* C26: the progress reporter changes the stored counters only to a
\* completion count that is a multiple of PROGRESS_EVERY or the total, and
\* while a job is PROCESSING its stored completed_rows is 0, a multiple of
\* PROGRESS_EVERY, or equal to the stored total_rows.
ProgressCadence ==
    [][\A j \in JobIds :
         /\ (proc[j].pc = "rows" /\ proc'[j].pc = "rows"
                /\ Counters(db'[j]) # Counters(db[j])) =>
               \/ db'[j].completed_rows % PROGRESS_EVERY = 0
               \/ db'[j].completed_rows = proc[j].total_rows
         /\ db[j].status = "processing" =>
               \/ db[j].completed_rows = 0
               \/ db[j].completed_rows % PROGRESS_EVERY = 0
               \/ db[j].completed_rows = db[j].total_rows]_vars

\* the second batch is stored while the last row of the job still runs
ProgressCadenceCase ==
    \E j \in JobIds :
        /\ db[j].status = "processing"
        /\ db[j].completed_rows = PROGRESS_EVERY + PROGRESS_EVERY
        /\ db[j].completed_rows < db[j].total_rows
        /\ proc[j].running > 0

\* C30: download_batch_result answers with the file only when the status it
\* read is COMPLETED; for a job it read as QUEUED, PROCESSING, FAILED or
\* CANCELLED it answers with an error that carries that status and no file
DownloadGating ==
    [][\A j \in JobIds :
         download_batch_result(j) =>
           /\ download'.kind = "file" => db[j].status = "completed"
           /\ db[j].status \in {"queued", "processing", "failed", "cancelled"} =>
                /\ download'.kind = "not_ready"
                /\ download'.status = db[j].status]_vars

\* a download of a cancelled job that has a result file is refused, and a
\* download of a completed job was served
DownloadGatingCase ==
    /\ download.kind = "not_ready"
    /\ download.status = "cancelled"
    /\ db[download.job].result_url
    /\ exports[download.job] # NoExport

\* a caller whose calls all had force_refresh false and during whose calls
\* no other caller wrote the record of the parcel
Undisturbed(me) ==
    /\ me.alone
    /\ \A k \in 1..Len(me.force_refresh) : ~me.force_refresh[k]

\* C21: the second get_analysis call of a caller for the parcel, both calls
\* without force_refresh and no other writer in between, does not gather
\* the metric and image calls and returns the document the first returned
CacheIdempotence ==
    [][\A c \in CallerIds :
         LET me == cache.caller[c]
             after == cache'.caller[c]
         IN /\ (me.call = 2 /\ Undisturbed(me)) => ~CacheGather(c)
            /\ (Len(me.returned) = 1 /\ Len(after.returned) = 2 /\ Undisturbed(after))
                 => /\ after.returned[2] = after.returned[1]
                    /\ after.invoked = me.invoked]_vars

\* a caller computed and stored the document in its first call and got it
\* back from the cache in its second
CacheIdempotenceCase ==
    \E c \in CallerIds :
        LET me == cache.caller[c] IN
        /\ Undisturbed(me)
        /\ me.returned = <<[by |-> c, call |-> 1], [by |-> c, call |-> 1]>>
        /\ me.invoked = 1
        /\ cache.table = <<[by |-> c, call |-> 1]>>

MetricFailureIsolation ==
    [][\A r \in FanRowIds :
         /\ fan[r].flood_hazard = "executing" =>
                fan'[r].flood_hazard \in {"executing", "value", "failed"}
         /\ FanGather(r) =>
                /\ fan[r].pending = 0 /\ fan[r].executing = 0
                /\ fan'[r].doc = "document"
         /\ (ProcCommit(r[1]) /\ fan[r].flood_hazard = "failed") =>
                /\ fan[r].pc = "counted"
                /\ db'[r[1]].status = "completed"
                /\ db'[r[1]].completed_rows = proc[r[1]].total_rows
                /\ db'[r[1]].failed_rows = 0
                /\ FlattenDocument(fan[r]) = [derived |-> TRUE, flood_zone |-> "X"]]_vars

\* the job of a row whose flood_hazard call raised is COMPLETED with the
\* row counted and its result file written
MetricFailureIsolationCase ==
    \E r \in FanRowIds :
        /\ fan[r].flood_hazard = "failed"
        /\ fan[r].doc = "document"
        /\ db[r[1]].status = "completed"
        /\ db[r[1]].completed_rows = 1
        /\ exports[r[1]] = 1
        /\ proc[r[1]].pc = "done"

\* C29: the analysis of a row of a dry_run job creates no image call, only
\* the METRIC_CALLS metric calls
DryRunSkipsImages ==
    \A r \in FanRowIds :
        (fan[r].dry_run /\ fan[r].pc \in {"analysis", "returned", "counted"}) =>
            /\ fan[r].images = 0
            /\ fan[r].pending + fan[r].executing <= METRIC_CALLS

\* a row of a dry_run job and a row of another job are under analysis, the
\* first with its metric calls only, the second with its image calls too
DryRunSkipsImagesCase ==
    \E r, q \in FanRowIds :
        /\ fan[r].dry_run /\ ~fan[q].dry_run
        /\ fan[r].pc = "analysis" /\ fan[q].pc = "analysis"
        /\ fan[r].pending + fan[r].executing = METRIC_CALLS
        /\ fan[q].images = IMAGE_CALLS

\* C25: a database error in a scheduler tick does not end the scheduler
\* loop, and every QUEUED job is still promoted in a later tick
SchedulerResilience ==
    /\ [](sched.pc \in {"sleep", "select", "promote"})
    /\ \A j \in JobIds : (db[j].status = "queued") ~> (db[j].status # "queued")

\* after the last database error the scheduler selected a queued job and is
\* about to promote it
SchedulerResilienceCase ==
    /\ faults = MaxFaults
    /\ sched.pc = "promote"
    /\ db[Head(sched.jobs_to_run)].status = "queued"

\* C27: when a progress report raises, its row task returns (it leaves the
\* pool counted as completed), the other row tasks and reports of the job
\* stay as they are or take the freed slot, and the commit of the job still
\* writes COMPLETED with completed_rows = total_rows = the rows written
ProgressFailuresSwallowed ==
    [][\A j \in JobIds :
         /\ \A p \in proc[j].prog :
               ProgressRaises(j, p) =>
                  /\ proc'[j].pc = "rows"
                  /\ proc'[j].prog = proc[j].prog \ {p}
                  /\ proc'[j].completed_count = proc[j].completed_count
                  /\ proc'[j].running >= proc[j].running
                  /\ proc'[j].running + proc'[j].waiting + proc'[j].skipped
                       = proc[j].running + proc[j].waiting + proc[j].skipped
                  /\ db'[j] = db[j]
         /\ (ProcCommit(j) /\ faults > 0) =>
               /\ db'[j].status = "completed"
               /\ db'[j].completed_rows = exports[j]
               /\ db'[j].total_rows = exports[j]]_vars

\* every progress report of a job raised, no counter was ever written by a
\* report, and the job is COMPLETED with all its rows
ProgressFailuresSwallowedCase ==
    \E j \in JobIds :
        /\ faults = MaxFaults
        /\ cancels = 0
        /\ db[j].status = "completed"
        /\ db[j].completed_rows = ManyRows
        /\ db[j].total_rows = ManyRows
        /\ proc[j].pc = "done"

\* C31: the scheduler promotes a job, and starts its processing task, only
\* if the job was never promoted before, and a write of a job's processing
\* task or progress reporter changes no other job's record
SingleWriter ==
    [][/\ SchedPromote =>
            /\ ~db[Head(sched.jobs_to_run)].started_at
            /\ proc[Head(sched.jobs_to_run)].pc = "none"
       /\ \A j \in JobIds :
            (\/ ProcCommit(j)
             \/ ProcErrCommit(j)
             \/ \E p \in proc[j].prog : ProgressCommit(j, p))
            => \A k \in JobIds \ {j} : db'[k] = db[k]]_vars

\* two jobs were promoted and each has its own running processing task
SingleWriterCase ==
    \E j, k \in JobIds :
        /\ j # k
        /\ db[j].started_at /\ db[k].started_at
        /\ proc[j].pc = "rows" /\ proc[k].pc = "commit"
        /\ db[j].completed_rows = 0

\* C33: a job that was cancelled while QUEUED is never promoted to
\* PROCESSING afterwards
QueuedCancelKept ==
    [][\A j \in JobIds :
         (db[j].status = "cancelled" /\ ~db[j].started_at)
            => db'[j].status # "processing"]_vars

\* C37: a job stored as COMPLETED has result_url set and a result file on
\* disk, a result_url implies a result file, and result_url becomes set only
\* by the write that commits COMPLETED
ArtifactBeforeCompleted ==
    /\ [](\A j \in JobIds :
            /\ db[j].status = "completed" => db[j].result_url
            /\ db[j].result_url => exports[j] # NoExport)
    /\ [][\A j \in JobIds :
            (db'[j].result_url /\ ~db[j].result_url)
               => (db'[j].status = "completed" /\ exports[j] # NoExport)]_vars

\* a COMPLETED job with its file, next to a PROCESSING job whose result
\* file is written and whose COMPLETED write is not committed yet
ArtifactBeforeCompletedCase ==
    \E j, k \in JobIds :
        /\ db[j].status = "completed" /\ db[j].result_url /\ exports[j] = FewRows
        /\ db[k].status = "processing" /\ ~db[k].result_url
        /\ exports[k] # NoExport

\* C38: a job stored as COMPLETED, FAILED or CANCELLED has completed_at, a
\* job stored as PROCESSING has started_at, and a job stored as QUEUED has
\* neither
TimestampInvariants ==
    \A j \in JobIds :
        /\ db[j].status \in Terminal => db[j].completed_at
        /\ db[j].status = "processing" => db[j].started_at
        /\ db[j].status = "queued" => (~db[j].started_at /\ ~db[j].completed_at)

\* a job that was cancelled while selected and then promoted: PROCESSING
\* with both timestamps, next to a job failed by the sweep
TimestampInvariantsCase ==
    \E j, k \in JobIds :
        /\ db[j].status = "processing" /\ db[j].started_at /\ db[j].completed_at
        /\ db[k].status = "failed" /\ db[k].error_message = ERR_INTERRUPTED

\* C36: the commit of COMPLETED leaves the job with failed_rows equal to the
\* number of its rows that ended with is_success false
FailedRowAccounting ==
    [][\A j \in JobIds :
         TrackCommit(j) =>
            db'[j].failed_rows =
               Cardinality({i \in TrackRowIds :
                              /\ pool.row[i].pc = "returned"
                              /\ ~pool.row[i].is_success})]_vars

\* the columns of a header that hold the given name
Holding(columns, name) == {k \in 1..Len(columns) : columns[k] = name}

\* the synonyms of a canonical column name, in lower case
Synonyms(name) ==
    IF name = "PropertyLatitude" THEN {"latitude", "lat"}
    ELSE {"longitude", "lon", "lng"}

\* C32: the heuristic renames a column only if it is a synonym of a
\* canonical name that no column carries after column_mapping was applied,
\* and when a column carries a canonical name after column_mapping, the
\* columns with that name are the same before and after the heuristic
ExplicitMappingWins ==
    frame.pc = "renamed" =>
       /\ Len(frame.columns) = Len(frame.mapped)
       /\ \A k \in 1..Len(frame.mapped) :
             frame.columns[k] # frame.mapped[k] =>
                \E name \in {"PropertyLatitude", "PropertyLongitude"} :
                   /\ frame.columns[k] = name
                   /\ Lower(frame.mapped[k]) \in Synonyms(name)
                   /\ Holding(frame.mapped, name) = {}
       /\ \A name \in {"PropertyLatitude", "PropertyLongitude"} :
             Holding(frame.mapped, name) # {} =>
                Holding(frame.columns, name) = Holding(frame.mapped, name)

\* column_mapping made a column PropertyLatitude, a latitude synonym next
\* to it kept its name, and a longitude synonym was renamed
ExplicitMappingWinsCase ==
    /\ frame.pc = "renamed"
    /\ frame.column_mapping # <<>>
    /\ \E k \in 1..Len(frame.read) :
          /\ frame.read[k] # "PropertyLatitude"
          /\ frame.mapped[k] = "PropertyLatitude"
    /\ \E k \in 1..Len(frame.mapped) :
          /\ Lower(frame.mapped[k]) \in Synonyms("PropertyLatitude")
          /\ frame.columns[k] = frame.mapped[k]
    /\ \E k \in 1..Len(frame.mapped) :
          /\ Lower(frame.mapped[k]) \in Synonyms("PropertyLongitude")
          /\ frame.columns[k] = "PropertyLongitude"

\* callers that hold a driver
Holders == {c \in DriverCallerIds : wd.held[c] # NotHeld}

\* C39: the drivers in the queue plus the drivers held by callers are as
\* many as the pool started with
DriverConservation ==
    wd.pc = "ready" => Len(wd.drivers) + Cardinality(Holders) = wd.started

\* C34: a job stored as PROCESSING is eventually stored as COMPLETED, FAILED
\* or CANCELLED
JobTermination ==
    \A j \in JobIds :
        (db[j].status = "processing") ~> (db[j].status \in Terminal)

====================================================================================
